---- MODULE Spec2Model ----
(***************************************************************************)
(* Booking / inventory core of the travel booking application:             *)
(* TravelOption and Booking (models.py), BookingForm (forms.py) and the    *)
(* request handlers book_travel_view and cancel_booking_view (views.py).   *)
(*                                                                         *)
(* Two specifications are defined over the same state:                     *)
(*   Spec         the request handlers, interleaved at their database      *)
(*                reads and writes (READ COMMITTED: book_travel_view is    *)
(*                one transaction whose writes appear at commit,           *)
(*                cancel_booking_view runs in autocommit so each save()    *)
(*                is visible at once);                                     *)
(*   SpecMethods  the model methods called directly on stored objects      *)
(*                whose fields are drawn from bounded sets.                *)
(* Money: total_price is in whole currency units, refunds are in           *)
(* hundredths of a unit (so 90% of 1000 is 90000).                         *)
(***************************************************************************)
EXTENDS Integers, FiniteSets, Sequences, TLC

VARIABLES travel, bookings, procs, now, served, last

vars == <<travel, bookings, procs, now, served, last>>

----------------------------------------------------------------------------
(* Bounds *)

MaxSeats == 2
MaxBookings == 2
MaxRequests == 3

Procs == {1, 2}
BookingIds == 1..MaxBookings
(* Users are interchangeable: bookings are made by Bookers, cancellations are
   requested by any of Users. *)
Users == {"u1", "u2"}
Bookers == {"u1"}
Reasons == {"changed plans"}
Prices == {1000}

(* Seconds between "now" and the departure time, in the order time passes. *)
TimePoints == <<108000, 86401, 86400, 36000, 21601, 21600, 10800, 7201, 7200, 3600>>
Times == 1..Len(TimePoints)
SecondsUntil(i) == TimePoints[i]

(* Program constants *)
MaxSeatsPerBooking == 10
CancelCutoffSeconds == 7200
SecondsPerHour == 3600

NoBooking == [status |-> "NONE"]
NoTravel == [status |-> "NONE"]
NullTime == 0
NoReference == 0

----------------------------------------------------------------------------
(* TravelOption *)

IsAvailableAnyStatus(t) == t.available_seats > 0

IsAvailable(t) == t.available_seats > 0 /\ t.status = "ACTIVE"

UpdateAvailabilityNoFull(t, seats_booked) ==
  [t EXCEPT !.available_seats = t.available_seats - seats_booked]

UpdateAvailability(t, seats_booked) ==
  LET a == t.available_seats - seats_booked
  IN [t EXCEPT !.available_seats = a,
               !.status = IF a = 0 THEN "FULL" ELSE t.status]

CancelSeatsSingle(t, seats_cancelled) ==
  LET a == t.available_seats + 1
  IN [t EXCEPT !.available_seats = a,
               !.status = IF t.status = "FULL" /\ a > 0 THEN "ACTIVE" ELSE t.status]

CancelSeatsNoRevert(t, seats_cancelled) ==
  [t EXCEPT !.available_seats = t.available_seats + seats_cancelled]

CancelSeats(t, seats_cancelled) ==
  LET a == t.available_seats + seats_cancelled
  IN [t EXCEPT !.available_seats = a,
               !.status = IF t.status = "FULL" /\ a > 0 THEN "ACTIVE" ELSE t.status]

----------------------------------------------------------------------------
(* Booking *)

IsCancellableInclusive(b, secs) ==
  IF b.status # "CONFIRMED" THEN FALSE ELSE secs >= CancelCutoffSeconds

IsCancellable(b, secs) ==
  IF b.status # "CONFIRMED" THEN FALSE ELSE secs > CancelCutoffSeconds

(* hours_until > h  <=>  secs / 3600 > h  <=>  secs > h * 3600 *)
GetRefundAmountInclusive(b, secs) ==
  IF ~IsCancellable(b, secs) THEN 0
  ELSE IF secs >= 24 * SecondsPerHour THEN b.total_price * 90
  ELSE IF secs >= 6 * SecondsPerHour THEN b.total_price * 50
  ELSE b.total_price * 25

GetRefundAmount(b, secs) ==
  IF ~IsCancellable(b, secs) THEN 0
  ELSE IF secs > 24 * SecondsPerHour THEN b.total_price * 90
  ELSE IF secs > 6 * SecondsPerHour THEN b.total_price * 50
  ELSE b.total_price * 25

(* cancel(): result, the booking object afterwards, its travel_option afterwards *)
CancelAnyStatus(b, t, reason, at) ==
  IF b.status # "PENDING" THEN
    [ok |-> TRUE,
     b |-> [b EXCEPT !.status = "CANCELLED", !.cancelled_at = at,
                     !.cancellation_reason = reason],
     t |-> CancelSeats(t, b.number_of_seats)]
  ELSE [ok |-> FALSE, b |-> b, t |-> t]

Cancel(b, t, reason, at) ==
  IF b.status = "CONFIRMED" THEN
    [ok |-> TRUE,
     b |-> [b EXCEPT !.status = "CANCELLED", !.cancelled_at = at,
                     !.cancellation_reason = reason],
     t |-> CancelSeats(t, b.number_of_seats)]
  ELSE [ok |-> FALSE, b |-> b, t |-> t]

ConfirmUnlessConfirmed(b) ==
  IF b.status # "CONFIRMED" THEN [ok |-> TRUE, b |-> [b EXCEPT !.status = "CONFIRMED"]]
  ELSE [ok |-> FALSE, b |-> b]

ConfirmBooking(b) ==
  IF b.status = "PENDING" THEN [ok |-> TRUE, b |-> [b EXCEPT !.status = "CONFIRMED"]]
  ELSE [ok |-> FALSE, b |-> b]

----------------------------------------------------------------------------
(* BookingForm *)

FormIsValidAnyNames(n, names) ==
  /\ n >= 1
  /\ n <= MaxSeatsPerBooking

(* number_of_seats validators and clean_passenger_names; names is the number
   of non-blank lines of passenger_names *)
FormIsValid(n, names) ==
  /\ n >= 1
  /\ n <= MaxSeatsPerBooking
  /\ names = n

NewBookingUnitPrice(user, t, n, names) ==
  [user |-> user, number_of_seats |-> n, total_price |-> t.price,
   status |-> "PENDING", passengers |-> names,
   cancelled_at |-> NullTime, cancellation_reason |-> "",
   booking_reference |-> NoReference]

(* form.save(commit=False) completed by book_travel_view *)
NewBooking(user, t, n, names) ==
  [user |-> user, number_of_seats |-> n, total_price |-> t.price * n,
   status |-> "PENDING", passengers |-> names,
   cancelled_at |-> NullTime, cancellation_reason |-> "",
   booking_reference |-> NoReference]

(* Booking.save(): a reference is generated only when there is none; ref
   stands for prefix + timestamp + random suffix.  The primary key has a
   default, so "if not self.pk" never holds and total_price is left as it is. *)
BookingSave(b, ref) ==
  IF b.booking_reference = NoReference THEN [b EXCEPT !.booking_reference = ref]
  ELSE b

----------------------------------------------------------------------------
(* State *)

Exists(pk) == bookings[pk] # NoBooking
FreeIds == {pk \in BookingIds : ~Exists(pk)}
NextId == CHOOSE pk \in FreeIds : \A q \in FreeIds : pk <= q

(* the references of the stored bookings, under the unique constraint *)
UsedReferences == {bookings[pk].booking_reference : pk \in BookingIds \ FreeIds}

(* what the generator can return: a reference already stored (a collision)
   or one that is not; references that are not stored are interchangeable *)
GeneratedReferences == UsedReferences \cup (IF FreeIds = {} THEN {} ELSE {NextId})

GetBookingAnyUser(pk, u) ==
  IF Exists(pk) THEN bookings[pk] ELSE NoBooking

(* get_object_or_404(Booking, pk=pk, user=request.user); NoBooking is Http404 *)
GetBookingOr404(pk, u) ==
  IF Exists(pk) /\ bookings[pk].user = u THEN bookings[pk] ELSE NoBooking

IdleProc ==
  [pc |-> "idle", user |-> "none", pk |-> 0, n |-> 0, t |-> NoTravel,
   b |-> NoBooking, outcome |-> "none", refund |-> 0]

NoCall == [op |-> "none", seq |-> 0, n |-> 0, pre |-> NoTravel]

Init ==
  /\ \E total \in 1..MaxSeats, st \in {"ACTIVE", "CANCELLED"}, price \in Prices :
       travel = [total_seats |-> total, available_seats |-> total,
                 status |-> st, price |-> price]
  /\ bookings = [pk \in BookingIds |-> NoBooking]
  /\ procs = [p \in Procs |-> IdleProc]
  /\ now = 1
  /\ served = 0
  /\ last = NoCall

(* the response: the outcome, the booking's key, the seats asked for and the
   refund shown *)
Done(pk, n, outcome, refund) ==
  [IdleProc EXCEPT !.pc = "done", !.pk = pk, !.n = n, !.outcome = outcome,
                   !.refund = refund]

----------------------------------------------------------------------------
(* book_travel_view *)

(* get_object_or_404(TravelOption) and the is_available() check *)
BookStart(p) ==
  /\ procs[p].pc = "idle"
  /\ served < MaxRequests
  /\ served' = served + 1
  /\ procs' = [procs EXCEPT ![p] =
                 IF ~IsAvailable(travel)
                 THEN Done(0, 0, "unavailable", 0)
                 ELSE [IdleProc EXCEPT !.pc = "book_loaded", !.t = travel]]
  /\ UNCHANGED <<travel, bookings, now, last>>

(* POST by user u: form validation, availability re-check, booking.save(),
   travel.update_availability(), commit.  ref is the reference generated in
   Booking.save(); a duplicate violates the unique constraint and the
   IntegrityError ends the request.  When the row was changed since this
   transaction read it, the database either applies the write (READ
   COMMITTED) or ends the transaction with an error (SQLite "database is
   locked", a serialization failure); views.py has no retry. *)
BookSubmit(p, u, n, names) ==
  /\ procs[p].pc = "book_loaded"
  /\ LET t == procs[p].t
     IN IF ~FormIsValid(n, names) THEN
          /\ procs' = [procs EXCEPT ![p] = Done(0, n, "invalid", 0)]
          /\ UNCHANGED <<travel, bookings>>
        ELSE IF t.available_seats < n THEN
          /\ procs' = [procs EXCEPT ![p] = Done(0, n, "unavailable", 0)]
          /\ UNCHANGED <<travel, bookings>>
        ELSE
          \E ref \in GeneratedReferences :
            IF ref \in UsedReferences THEN
              /\ procs' = [procs EXCEPT ![p] = Done(0, n, "integrity_error", 0)]
              /\ UNCHANGED <<travel, bookings>>
            ELSE
              \/ /\ travel # t
                 /\ procs' = [procs EXCEPT ![p] = Done(0, n, "conflict_abort", 0)]
                 /\ UNCHANGED <<travel, bookings>>
              \/ LET pk == NextId
                     b == BookingSave(NewBooking(u, t, n, names), ref)
                 IN /\ bookings' = [bookings EXCEPT ![pk] = b]
                    /\ travel' = UpdateAvailability(t, b.number_of_seats)
                    /\ procs' = [procs EXCEPT ![p] = Done(pk, n, "booked", 0)]
  /\ UNCHANGED <<now, served, last>>

----------------------------------------------------------------------------
(* cancel_booking_view *)

(* get_object_or_404(Booking, pk=pk, user=request.user) *)
CancelStart(p, u, pk) ==
  /\ procs[p].pc = "idle"
  /\ served < MaxRequests
  /\ served' = served + 1
  /\ procs' = [procs EXCEPT ![p] =
                 IF GetBookingOr404(pk, u) = NoBooking
                 THEN [Done(pk, 0, "not_found", 0) EXCEPT !.user = u]
                 ELSE [IdleProc EXCEPT !.pc = "cancel_loaded", !.user = u,
                                       !.pk = pk, !.b = GetBookingOr404(pk, u)]]
  /\ UNCHANGED <<travel, bookings, now, last>>

(* booking.is_cancellable(): status check, then the lazy load of
   booking.travel_option and the time check *)
CancelCheck(p) ==
  /\ procs[p].pc = "cancel_loaded"
  /\ procs' = [procs EXCEPT ![p] =
                 IF IsCancellable(procs[p].b, SecondsUntil(now))
                 THEN [procs[p] EXCEPT !.pc = "cancel_checked", !.t = travel]
                 ELSE Done(procs[p].pk, 0, "not_cancellable", 0)]
  /\ UNCHANGED <<travel, bookings, now, served, last>>

(* booking.cancel(reason) up to and including travel_option.cancel_seats(),
   whose save() writes the cached TravelOption row *)
CancelRelease(p, reason) ==
  /\ procs[p].pc = "cancel_checked"
  /\ LET c == Cancel(procs[p].b, procs[p].t, reason, now)
     IN IF c.ok THEN
          /\ travel' = c.t
          /\ procs' = [procs EXCEPT ![p] =
                         [procs[p] EXCEPT !.pc = "cancel_released", !.b = c.b, !.t = c.t]]
        ELSE
          /\ procs' = [procs EXCEPT ![p] = Done(procs[p].pk, 0, "failed", 0)]
          /\ UNCHANGED travel
  /\ UNCHANGED <<bookings, now, served, last>>

(* the rest of booking.cancel(): self.save(); then the view's
   booking.get_refund_amount() and its success message *)
CancelSave(p) ==
  /\ procs[p].pc = "cancel_released"
  /\ bookings' = [bookings EXCEPT ![procs[p].pk] = BookingSave(procs[p].b, NoReference)]
  /\ procs' = [procs EXCEPT ![p] =
                 Done(procs[p].pk, 0, "cancelled",
                      GetRefundAmount(procs[p].b, SecondsUntil(now)))]
  /\ UNCHANGED <<travel, now, served, last>>

----------------------------------------------------------------------------
(* Other steps *)

(* Booking.confirm() on a stored booking *)
Confirm(pk) ==
  /\ Exists(pk)
  /\ ConfirmBooking(bookings[pk]).ok
  /\ bookings' = [bookings EXCEPT ![pk] =
                    BookingSave(ConfirmBooking(bookings[pk]).b, NoReference)]
  /\ UNCHANGED <<travel, procs, now, served, last>>

(* the response has been sent; the worker takes the next request *)
Finish(p) ==
  /\ procs[p].pc = "done"
  /\ procs' = [procs EXCEPT ![p] = IdleProc]
  /\ UNCHANGED <<travel, bookings, now, served, last>>

(* timezone.now() moves towards the departure time, to the next point of grid *)
Tick(grid) ==
  /\ \E i \in grid : i > now
  /\ now' = CHOOSE i \in grid : i > now /\ \A j \in grid : j > now => i <= j
  /\ UNCHANGED <<travel, bookings, procs, served, last>>

SeatInputs == 0..(MaxSeats + 1) \cup {MaxSeatsPerBooking + 1}
(* 30h, 10h, 3h and 1h before departure *)
CoarseTimes == {1, 4, 7, 10}

Next ==
  \/ \E p \in Procs : BookStart(p)
  \/ \E p \in Procs, u \in Bookers, n \in SeatInputs :
       \E names \in {n, n + 1} : BookSubmit(p, u, n, names)
  \/ \E p \in Procs, u \in Users, pk \in BookingIds : CancelStart(p, u, pk)
  \/ \E p \in Procs : CancelCheck(p)
  \/ \E p \in Procs, reason \in Reasons : CancelRelease(p, reason)
  \/ \E p \in Procs : CancelSave(p)
  \/ \E pk \in BookingIds : Confirm(pk)
  \/ \E p \in Procs : Finish(p)
  \/ Tick(CoarseTimes)

Spec == Init /\ [][Next]_vars

(* A request that has been received is carried to its response: the steps of
   a handler are taken as long as they are enabled.  Nothing in views.py calls
   Booking.confirm(), and no request has to arrive. *)
HandlerStep(p) ==
  \/ \E u \in Bookers, n \in SeatInputs :
       \E names \in {n, n + 1} : BookSubmit(p, u, n, names)
  \/ CancelCheck(p)
  \/ \E reason \in Reasons : CancelRelease(p, reason)
  \/ CancelSave(p)
  \/ Finish(p)

SpecFair == Spec /\ \A p \in Procs : WF_vars(HandlerStep(p))

(* Requests served one at a time: a request, or a confirm(), starts only
   when no other request is between its first read and its response. *)
NoneRunning == \A q \in Procs : procs[q].pc \in {"idle", "done"}

NextSequential ==
  \/ \E p \in Procs : NoneRunning /\ BookStart(p)
  \/ \E p \in Procs, u \in Bookers, n \in SeatInputs :
       \E names \in {n, n + 1} : BookSubmit(p, u, n, names)
  \/ \E p \in Procs, u \in Users, pk \in BookingIds : NoneRunning /\ CancelStart(p, u, pk)
  \/ \E p \in Procs : CancelCheck(p)
  \/ \E p \in Procs, reason \in Reasons : CancelRelease(p, reason)
  \/ \E p \in Procs : CancelSave(p)
  \/ \E pk \in BookingIds : NoneRunning /\ Confirm(pk)
  \/ \E p \in Procs : Finish(p)
  \/ Tick(CoarseTimes)

SpecSequential == Init /\ [][NextSequential]_vars

----------------------------------------------------------------------------
(* The model methods called directly on stored objects *)

StoredTravelOptions ==
  {t \in [total_seats : 1..MaxSeats, available_seats : 0..MaxSeats,
          status : {"ACTIVE", "FULL", "CANCELLED"}, price : Prices] :
     /\ t.available_seats <= t.total_seats
     /\ t.status = "FULL" => t.available_seats = 0
     /\ t.status = "ACTIVE" => t.available_seats > 0}

StoredBookings(t) ==
  {b \in [user : Bookers, number_of_seats : 1..MaxSeats,
          total_price : {t.price * n : n \in 1..MaxSeats},
          status : {"PENDING", "CONFIRMED", "CANCELLED", "REFUNDED"},
          passengers : 1..MaxSeats, cancelled_at : {NullTime, 1},
          cancellation_reason : {""}, booking_reference : {1}] :
     /\ b.total_price = t.price * b.number_of_seats
     /\ b.passengers = b.number_of_seats
     /\ b.cancelled_at # NullTime <=> b.status = "CANCELLED"
     /\ b.status \in {"PENDING", "CONFIRMED"} =>
          b.number_of_seats <= t.total_seats - t.available_seats}

InitMethods ==
  /\ travel \in StoredTravelOptions
  /\ \E b \in StoredBookings(travel) :
       bookings = [pk \in BookingIds |-> IF pk = 1 THEN b ELSE NoBooking]
  /\ procs = [p \in Procs |-> IdleProc]
  /\ now \in Times
  /\ served = 0
  /\ last = NoCall

(* The record of a call: its arguments, its return value, the TravelOption
   before it, and for cancel_seats the call it follows *)
NoPrev == [op |-> "none"]
Summary(c) == [op |-> c.op, n |-> c.n, pre |-> c.pre]

Call(op, n, pk, reason, ret) ==
  [op |-> op, seq |-> 1 - last.seq, n |-> n, pk |-> pk, reason |-> reason,
   ret |-> ret, pre |-> travel,
   prev |-> IF op = "cancel_seats" THEN Summary(last) ELSE NoPrev]

MUpdateAvailability(n) ==
  /\ travel.available_seats - n >= 0 - MaxSeats
  /\ travel' = UpdateAvailability(travel, n)
  /\ last' = Call("update_availability", n, 0, "", TRUE)
  /\ UNCHANGED <<bookings, procs, now, served>>

MCancelSeats(n) ==
  /\ travel.available_seats + n <= 2 * MaxSeats
  /\ travel' = CancelSeats(travel, n)
  /\ last' = Call("cancel_seats", n, 0, "", TRUE)
  /\ UNCHANGED <<bookings, procs, now, served>>

MCancel(pk, reason) ==
  /\ Exists(pk)
  /\ LET c == Cancel(bookings[pk], travel, reason, now)
     IN /\ c.t.available_seats <= 2 * MaxSeats
        /\ bookings' = [bookings EXCEPT ![pk] = c.b]
        /\ travel' = c.t
        /\ last' = Call("cancel", 0, pk, reason, c.ok)
  /\ UNCHANGED <<procs, now, served>>

MConfirm(pk) ==
  /\ Exists(pk)
  /\ LET c == ConfirmBooking(bookings[pk])
     IN /\ bookings' = [bookings EXCEPT ![pk] = c.b]
        /\ last' = Call("confirm", 0, pk, "", c.ok)
  /\ UNCHANGED <<travel, procs, now, served>>

MGetRefundAmount(pk) ==
  /\ Exists(pk)
  /\ last' = Call("get_refund_amount", 0, pk, "",
                  GetRefundAmount(bookings[pk], SecondsUntil(now)))
  /\ UNCHANGED <<travel, bookings, procs, now, served>>

MIsCancellable(pk) ==
  /\ Exists(pk)
  /\ last' = Call("is_cancellable", 0, pk, "",
                  IsCancellable(bookings[pk], SecondsUntil(now)))
  /\ UNCHANGED <<travel, bookings, procs, now, served>>

NextMethods ==
  \/ \E n \in 1..(MaxSeats + 1) : MUpdateAvailability(n)
  \/ \E n \in 1..(MaxSeats + 1) : MCancelSeats(n)
  \/ \E pk \in BookingIds, reason \in Reasons : MCancel(pk, reason)
  \/ \E pk \in BookingIds : MConfirm(pk)
  \/ \E pk \in BookingIds : MGetRefundAmount(pk)
  \/ \E pk \in BookingIds : MIsCancellable(pk)

SpecMethods == InitMethods /\ [][NextMethods]_vars

----------------------------------------------------------------------------
(* Properties *)

RECURSIVE SumSeats(_)
SumSeats(S) ==
  IF S = {} THEN 0
  ELSE LET pk == CHOOSE x \in S : TRUE
       IN bookings[pk].number_of_seats + SumSeats(S \ {pk})

HeldSeats == SumSeats({pk \in BookingIds : bookings[pk].status \in {"PENDING", "CONFIRMED"}})

(* C1: under every interleaving of booking requests the seats held by
   non-cancelled bookings never exceed the option's total_seats. *)
NoOverbooking == HeldSeats <= travel.total_seats

(* C2: every reachable state has 0 <= available_seats <= total_seats. *)
SeatsWithinBounds ==
  /\ 0 <= travel.available_seats
  /\ travel.available_seats <= travel.total_seats

(* C3: cancel() on a booking whose status is CANCELLED returns False and
   changes neither the booking table nor the travel option. *)
CancelOfCancelledFails ==
  [][(/\ last'.seq # last.seq
      /\ last'.op = "cancel"
      /\ bookings[last'.pk].status = "CANCELLED")
     => (/\ last'.ret = FALSE
         /\ bookings' = bookings
         /\ travel' = travel)]_vars

CancelOfCancelledSeen ==
  /\ last.op = "cancel"
  /\ last.ret = FALSE
  /\ bookings[last.pk].status = "CANCELLED"
  /\ travel = last.pre

(* the refund tier the policy names for secs seconds before departure, in
   hundredths of a currency unit *)
TierRefund(total_price, secs) ==
  IF secs > 86400 THEN 90 * total_price
  ELSE IF secs > 21600 THEN 50 * total_price
  ELSE IF secs > 7200 THEN 25 * total_price
  ELSE 0

(* C4: a successful cancel request reports the tier refund for the time of
   the cancellation. *)
CancelReportsTierRefund ==
  \A p \in Procs :
    (procs[p].pc = "done" /\ procs[p].outcome = "cancelled") =>
      LET b == bookings[procs[p].pk]
      IN procs[p].refund = TierRefund(b.total_price, SecondsUntil(b.cancelled_at))

(* C5: get_refund_amount() is 90% / 50% / 25% of total_price for h > 24,
   6 < h <= 24, 2 < h <= 6 on a CONFIRMED booking, 0 otherwise, hence
   non-decreasing in h; total_price 1000 gives 900, 500, 250, 0 at 30h, 10h,
   3h, 1h. *)
ClaimedRefund(b, secs) ==
  IF b.status = "CONFIRMED" THEN TierRefund(b.total_price, secs) ELSE 0

RefundTiers ==
  /\ last.op = "get_refund_amount" =>
       last.ret = ClaimedRefund(bookings[last.pk], SecondsUntil(now))
  /\ \A pk \in BookingIds : Exists(pk) =>
       LET b == bookings[pk]
       IN /\ \A i \in Times :
               GetRefundAmount(b, SecondsUntil(i)) = ClaimedRefund(b, SecondsUntil(i))
          /\ \A i, j \in Times :
               SecondsUntil(i) <= SecondsUntil(j) =>
                 GetRefundAmount(b, SecondsUntil(i)) <= GetRefundAmount(b, SecondsUntil(j))
          /\ (b.status = "CONFIRMED" /\ b.total_price = 1000) =>
               /\ GetRefundAmount(b, 30 * SecondsPerHour) = 90000
               /\ GetRefundAmount(b, 10 * SecondsPerHour) = 50000
               /\ GetRefundAmount(b, 3 * SecondsPerHour) = 25000
               /\ GetRefundAmount(b, 1 * SecondsPerHour) = 0

RefundAtBreakpointSeen ==
  /\ last.op = "get_refund_amount"
  /\ bookings[last.pk].status = "CONFIRMED"
  /\ SecondsUntil(now) = 86400
  /\ last.ret = 50 * bookings[last.pk].total_price

(* C6: on an ACTIVE option, update_availability(n) with 1 <= n <=
   available_seats followed by cancel_seats(n) restores available_seats and
   status. *)
ReserveReleaseRoundTrip ==
  (/\ last.op = "cancel_seats"
   /\ last.prev.op = "update_availability"
   /\ last.prev.n = last.n
   /\ last.prev.pre.status = "ACTIVE"
   /\ last.n >= 1
   /\ last.n <= last.prev.pre.available_seats)
  => (/\ travel.available_seats = last.prev.pre.available_seats
      /\ travel.status = last.prev.pre.status)

RoundTripThroughFullSeen ==
  /\ last.op = "cancel_seats"
  /\ last.prev.op = "update_availability"
  /\ last.prev.n = last.n
  /\ last.prev.pre.status = "ACTIVE"
  /\ last.n = last.prev.pre.available_seats
  /\ last.pre.status = "FULL"
  /\ travel.status = "ACTIVE"

(* C7: an option that is not CANCELLED is FULL iff available_seats = 0 and
   ACTIVE iff available_seats > 0, after any bookings and cancellations. *)
FullIffNoSeats ==
  travel.status # "CANCELLED" =>
    /\ travel.status = "FULL" <=> travel.available_seats = 0
    /\ travel.status = "ACTIVE" <=> travel.available_seats > 0

FullAfterCancellationSeen ==
  /\ travel.status = "FULL"
  /\ \E pk \in BookingIds : bookings[pk].status = "CANCELLED"
  /\ \E pk \in BookingIds : bookings[pk].status \in {"PENDING", "CONFIRMED"}

(* C8: once the option's status is CANCELLED no update_availability or
   cancel_seats call changes it. *)
CancelledStaysCancelled ==
  [][travel.status = "CANCELLED" => travel'.status = "CANCELLED"]_vars

(* C9: a booking request on an option it finds not ACTIVE, or (with a valid
   form) for more seats than it finds available, ends as "unavailable",
   creates no booking and leaves the option as it is. *)
UnavailableReservationRejected ==
  [][\A p \in Procs :
       /\ (/\ procs[p].pc = "idle"
           /\ procs'[p].pc \in {"book_loaded", "done"}
           /\ procs'[p].outcome # "not_found"
           /\ travel.status # "ACTIVE")
          => (/\ procs'[p].pc = "done"
              /\ procs'[p].outcome = "unavailable"
              /\ bookings' = bookings
              /\ travel' = travel)
       /\ (/\ procs[p].pc = "book_loaded"
           /\ procs'[p].pc = "done"
           /\ procs'[p].outcome # "invalid"
           /\ \/ procs'[p].n > procs[p].t.available_seats
              \/ procs[p].t.status # "ACTIVE")
          => (/\ procs'[p].outcome = "unavailable"
              /\ bookings' = bookings
              /\ travel' = travel)]_vars

TooManySeatsRejectedSeen ==
  \E p \in Procs :
    /\ procs[p].pc = "done"
    /\ procs[p].outcome = "unavailable"
    /\ procs[p].n >= 1
    /\ procs[p].n <= MaxSeatsPerBooking
    /\ travel.status = "ACTIVE"

(* C10: cancel(reason) changes the booking and the option only when the
   booking is CONFIRMED and is_cancellable() holds; then it sets status,
   cancelled_at and cancellation_reason and adds number_of_seats seats;
   cancelled_at is set only on CANCELLED bookings. *)
CancelOnlyWhenCancellable ==
  [][(last'.seq # last.seq /\ last'.op = "cancel") =>
       LET pk == last'.pk
           b == bookings[pk]
           c == bookings'[pk]
       IN /\ IF b.status = "CONFIRMED" /\ SecondsUntil(now) > 7200
             THEN /\ c.status = "CANCELLED"
                  /\ c.cancelled_at = now
                  /\ c.cancellation_reason = last'.reason
                  /\ travel'.available_seats = travel.available_seats + b.number_of_seats
             ELSE /\ c.status = b.status
                  /\ c.cancelled_at = b.cancelled_at
                  /\ c.cancellation_reason = b.cancellation_reason
                  /\ travel'.available_seats = travel.available_seats
          /\ c.cancelled_at # NullTime => c.status = "CANCELLED"]_vars

(* C11: every booking that is PENDING eventually becomes CONFIRMED. *)
PendingIsTransient ==
  \A pk \in BookingIds :
    (bookings[pk].status = "PENDING") ~> (bookings[pk].status = "CONFIRMED")

(* C12: a booking's status changes only from PENDING to CONFIRMED, by
   confirm(), and from CONFIRMED to CANCELLED, by cancel(); confirm() on a
   booking that is not PENDING returns False and changes nothing; CANCELLED
   and REFUNDED are never left. *)
StatusTransitions ==
  [][\A pk \in BookingIds :
       /\ bookings'[pk].status # bookings[pk].status =>
            \/ /\ bookings[pk].status = "PENDING"
               /\ bookings'[pk].status = "CONFIRMED"
               /\ last'.op = "confirm"
            \/ /\ bookings[pk].status = "CONFIRMED"
               /\ bookings'[pk].status = "CANCELLED"
               /\ last'.op = "cancel"
       /\ (/\ last'.seq # last.seq
           /\ last'.op = "confirm"
           /\ last'.pk = pk
           /\ bookings[pk].status # "PENDING")
          => (last'.ret = FALSE /\ bookings' = bookings)
       /\ bookings[pk].status \in {"CANCELLED", "REFUNDED"} =>
            bookings'[pk].status = bookings[pk].status]_vars

ConfirmOfTerminalSeen ==
  /\ last.op = "confirm"
  /\ last.ret = FALSE
  /\ bookings[last.pk].status \in {"CANCELLED", "REFUNDED"}

(* C13: is_cancellable() is true iff the booking is CONFIRMED and more than
   7200 seconds remain before departure. *)
CancellableIffConfirmedAndEarly ==
  /\ last.op = "is_cancellable" =>
       (last.ret <=> (/\ bookings[last.pk].status = "CONFIRMED"
                      /\ SecondsUntil(now) > 7200))
  /\ \A pk \in BookingIds : Exists(pk) =>
       /\ ~IsCancellable(bookings[pk], 7200)
       /\ \A i \in Times :
            IsCancellable(bookings[pk], SecondsUntil(i)) <=>
              (bookings[pk].status = "CONFIRMED" /\ SecondsUntil(i) > 7200)

NotCancellableAtCutoffSeen ==
  /\ last.op = "is_cancellable"
  /\ bookings[last.pk].status = "CONFIRMED"
  /\ SecondsUntil(now) = 7200
  /\ last.ret = FALSE

FormAcceptsExactlyValidInputs ==
  \A n \in 0..(MaxSeatsPerBooking + 2), k \in 0..(MaxSeatsPerBooking + 2) :
    FormIsValid(n, k) <=> (n >= 1 /\ n <= 10 /\ k = n)

(* C14: a booking is created only for 1 <= seats <= 10, seats <= the
   available_seats the request found, and as many passenger names as seats;
   otherwise the request fails, creates nothing and leaves the option as it
   is; so every stored booking has 1..10 seats and that many passengers. *)
BookingCreatedOnlyIfValid ==
  [][/\ FormAcceptsExactlyValidInputs
     /\ \A p \in Procs :
          (procs[p].pc = "book_loaded" /\ procs'[p].pc = "done") =>
            /\ IF procs'[p].outcome = "booked"
               THEN LET b == bookings'[procs'[p].pk]
                    IN /\ bookings[procs'[p].pk] = NoBooking
                       /\ b.number_of_seats = procs'[p].n
                       /\ b.number_of_seats >= 1
                       /\ b.number_of_seats <= 10
                       /\ b.number_of_seats <= procs[p].t.available_seats
                       /\ b.passengers = b.number_of_seats
               ELSE bookings' = bookings /\ travel' = travel
            /\ (\/ procs'[p].n < 1
                \/ procs'[p].n > 10
                \/ procs'[p].n > procs[p].t.available_seats)
               => procs'[p].outcome \in {"invalid", "unavailable"}
     /\ \A pk \in BookingIds :
          bookings'[pk] # NoBooking =>
            /\ bookings'[pk].number_of_seats \in 1..10
            /\ bookings'[pk].passengers = bookings'[pk].number_of_seats]_vars

NameCountMismatchRejectedSeen ==
  \E p \in Procs :
    /\ procs[p].pc = "done"
    /\ procs[p].outcome = "invalid"
    /\ procs[p].n >= 1
    /\ procs[p].n <= travel.available_seats
    /\ travel.status = "ACTIVE"

(* C15: there is no state in which a cancellation has written the released
   seats to the travel option while the stored booking is not yet CANCELLED. *)
CancelAtomicWithRelease ==
  \A p \in Procs :
    procs[p].pc = "cancel_released" => bookings[procs[p].pk].status = "CANCELLED"

(* C16: every booking's total_price is price * number_of_seats, and it never
   changes once the booking is stored. *)
TotalPriceFixed ==
  [][\A pk \in BookingIds :
       /\ bookings'[pk] # NoBooking =>
            bookings'[pk].total_price = travel'.price * bookings'[pk].number_of_seats
       /\ bookings[pk] # NoBooking =>
            bookings'[pk].total_price = bookings[pk].total_price]_vars

PriceKeptThroughCancelSeen ==
  \E pk \in BookingIds :
    /\ bookings[pk].status = "CANCELLED"
    /\ bookings[pk].number_of_seats = 2
    /\ bookings[pk].total_price = 2 * travel.price

(* C17: no two bookings share a reference, a stored reference never changes,
   and a generated reference that collides is replaced by a new one, so no
   booking request fails on the collision. *)
ReferencesUniqueAndRetried ==
  [][/\ \A pk, qk \in BookingIds :
          (/\ pk # qk
           /\ bookings'[pk] # NoBooking
           /\ bookings'[qk] # NoBooking)
          => bookings'[pk].booking_reference # bookings'[qk].booking_reference
     /\ \A pk \in BookingIds :
          bookings[pk] # NoBooking =>
            bookings'[pk].booking_reference = bookings[pk].booking_reference
     /\ \A p \in Procs : procs'[p].outcome # "integrity_error"]_vars

(* C18: a cancel request by a user who is not the booking's owner ends as
   not found and changes nothing; a booking is cancelled, and its seats are
   released, only by a request of its owner. *)
OnlyOwnerCancels ==
  [][/\ \A p \in Procs :
          /\ (procs[p].pc = "idle" /\ procs'[p].pc = "cancel_loaded") =>
               bookings[procs'[p].pk].user = procs'[p].user
          /\ (/\ procs[p].pc = "idle"
              /\ procs'[p].user \in Users
              /\ bookings[procs'[p].pk] # NoBooking
              /\ bookings[procs'[p].pk].user # procs'[p].user)
             => (/\ procs'[p].pc = "done"
                 /\ procs'[p].outcome = "not_found"
                 /\ bookings' = bookings
                 /\ travel' = travel)
          /\ (procs[p].pc = "cancel_checked" /\ procs'[p].pc = "cancel_released") =>
               procs[p].user = bookings[procs[p].pk].user
     /\ \A pk \in BookingIds :
          (/\ bookings[pk] # NoBooking
           /\ \/ bookings'[pk].status # bookings[pk].status
              \/ bookings'[pk].cancelled_at # bookings[pk].cancelled_at
              \/ bookings'[pk].cancellation_reason # bookings[pk].cancellation_reason
           /\ bookings'[pk].status = "CANCELLED")
          => \E p \in Procs : /\ procs[p].pc = "cancel_released"
                              /\ procs[p].pk = pk
                              /\ procs[p].user = bookings[pk].user]_vars

NonOwnerRejectedSeen ==
  \E p \in Procs :
    /\ procs[p].pc = "done"
    /\ procs[p].outcome = "not_found"
    /\ procs[p].pk \in BookingIds
    /\ bookings[procs[p].pk].status = "CONFIRMED"
    /\ bookings[procs[p].pk].user # procs[p].user
    /\ SecondsUntil(now) > 7200

(* C19: no booking request ends because its transaction was aborted on a
   conflicting concurrent write: the transaction is retried. *)
ConflictIsRetried ==
  \A p \in Procs : procs[p].outcome # "conflict_abort"

(* C20: when a cancel request releases the seats of a booking whose seats
   another cancel request has already released, available_seats does not
   rise again. *)
SeatsReleasedOnce ==
  [][\A p \in Procs :
       (/\ procs[p].pc = "cancel_checked"
        /\ procs'[p].pc = "cancel_released"
        /\ \/ bookings[procs[p].pk].status = "CANCELLED"
           \/ \E q \in Procs \ {p} : /\ procs[q].pc = "cancel_released"
                                     /\ procs[q].pk = procs[p].pk)
       => travel'.available_seats = travel.available_seats]_vars

(* C21: when requests run one at a time, starting from available_seats =
   total_seats and no bookings, then between requests available_seats plus
   the seats of the PENDING and CONFIRMED bookings equals total_seats. *)
SeatConservation ==
  NoneRunning => travel.available_seats + HeldSeats = travel.total_seats

ConservedAfterCancelAndRebookSeen ==
  /\ NoneRunning
  /\ travel.available_seats < travel.total_seats
  /\ \E pk, qk \in BookingIds :
       /\ bookings[pk].status = "CANCELLED"
       /\ bookings[pk].number_of_seats = 2
       /\ bookings[qk].status \in {"PENDING", "CONFIRMED"}

====
